---- MODULE Spec2Model ----
(***************************************************************************)
(* Model of the derive macros of astarte-device-sdk-derive (src/lib.rs):   *)
(* the parsing and merging of #[astarte_aggregate(..)] attributes, the     *)
(* validation of the declaration's shape, the generated astarte_aggregate  *)
(* encode function, and the FromEvent decode of an individual aggregation. *)
(*                                                                         *)
(* Strings that the code only compares are TLA+ strings.  Identifiers that *)
(* a rename rule rewrites are sequences of one-character strings, so that  *)
(* the rewriting is computed and not assumed.                              *)
(***************************************************************************)
EXTENDS Integers, Sequences, FiniteSets, TLC

VARIABLES
    tokens,     \* SpecParse: the tokens inside one #[attr(...)] list
    nvOut,      \* SpecParse: result of parse_name_value_attrs
    attrOut,    \* SpecParse: result of <AggregateAttributes as Parse>::parse
    mapOut,     \* SpecParse: result of the #[mapping(..)] option resolver
    ast,        \* Spec: the syn::DeriveInput handed to the derive macro
    emitted,    \* Spec: what astarte_aggregate_derive expands to
    pc,         \* Spec: position of the build / of one astarte_aggregate call
    self,       \* Spec: the instance encoded: which fields' values convert
    idx,        \* Spec: next statement of the generated function body
    result,     \* Spec: the local HashMap `result` of the generated function
    converted,  \* Spec: fields on which TryInto::try_into has been called
    ret,        \* Spec: value returned by the generated function
    variants,   \* SpecDecode: the variants of the derived enum
    event,      \* SpecDecode: the inbound event (path, payload)
    decoded     \* SpecDecode: value returned by the generated from_event

vars == <<tokens, nvOut, attrOut, mapOut, ast, emitted, pc, self, idx, result,
          converted, ret, variants, event, decoded>>

parseVars == <<tokens, nvOut, attrOut, mapOut>>
deriveVars == <<ast, emitted, pc, self, idx, result, converted, ret>>
decodeVars == <<variants, event, decoded>>

----------------------------------------------------------------------------
(* Bounds of the model *)

MaxPairs == 2
MaxAttrs == 2
MaxFields == 2
MaxVariants == 2

----------------------------------------------------------------------------
(* Results and options *)

None == "None"

\* a result that has not been produced yet
Pending == [pending |-> TRUE]
IsPending(r) == "pending" \in DOMAIN r

Ok(v) == [ok |-> TRUE, val |-> v]

Err(msg, span) == [ok |-> FALSE, msg |-> msg, span |-> span]

SeqsUpTo(S, n) == UNION {[1..k -> S] : k \in 0..n}

Last(s) == s[Len(s)]

----------------------------------------------------------------------------
(* Tokens of a configuration block: a comma separated list whose elements  *)
(* are `path = expr` (syn::MetaNameValue) or something else (junk).        *)

StrLit(s) == [kind |-> "Str", v |-> s]
BoolLit(b) == [kind |-> "Bool", v |-> b]
IntLit(n) == [kind |-> "Int", v |-> n]

NameValue(path, value) == [form |-> "nv", path |-> path, value |-> value]
Junk == [form |-> "junk", path |-> <<>>, value |-> IntLit("0")]

Exprs ==
    {StrLit("camelCase"), StrLit("bogus"), BoolLit("true"), IntLit("5")}

Paths == {<<"rename_all">>, <<"allow_unset">>, <<"foo">>, <<"a", "b">>}

Elements == {NameValue(p, e) : p \in Paths, e \in Exprs} \cup {Junk}

Blocks == SeqsUpTo(Elements, MaxPairs)

----------------------------------------------------------------------------
(* Error messages of lib.rs.  A failure of syn's own parser (a list that   *)
(* is not made of name-value pairs) has a message chosen by syn.           *)

ErrTokenize == "syn: expected a name-value pair"
ErrNotIdent == "expected an identifier like rename_all"
ErrNotStr == "expression must be a string literal"
ErrNotBool == "expression must be a bool literal"
ErrRenameRule == "invalid rename rule"
ErrNotStruct == "a named struct is required"
ErrNotNamed == "a nemed struct is required"
ErrNamedValue == "cannot be used as a named value"

----------------------------------------------------------------------------
(* parse_name_value_attrs, parse_str_lit, parse_bool_lit *)

\* syn::Path::get_ident: Some only for a path of one segment
get_ident(path) == IF Len(path) = 1 THEN path[1] ELSE None

IsJunk(e) == e.form = "junk"
NotIdentKey(e) == get_ident(e.path) = None

\* position of the first element the name-value parser of syn rejects, or 0
FirstJunk(input) ==
    IF \E i \in 1..Len(input) : IsJunk(input[i])
    THEN CHOOSE i \in 1..Len(input) :
            IsJunk(input[i]) /\ \A j \in 1..(i - 1) : ~IsJunk(input[j])
    ELSE 0

\* position of the first pair whose key is not a bare identifier, or 0
FirstNotIdent(input) ==
    IF \E i \in 1..Len(input) : NotIdentKey(input[i])
    THEN CHOOSE i \in 1..Len(input) :
            NotIdentKey(input[i]) /\ \A j \in 1..(i - 1) : ~NotIdentKey(input[j])
    ELSE 0

\* position of the last pair whose key is k
LastWithKey(input, k) ==
    CHOOSE i \in 1..Len(input) :
        /\ get_ident(input[i].path) = k
        /\ \A j \in (i + 1)..Len(input) : get_ident(input[j].path) # k

\* Collecting (key, value) pairs into a HashMap: a later pair replaces an
\* earlier one with the same key.  Each entry keeps the value and the
\* position (span) of the expression it came from.
CollectHashMap(input) ==
    LET keys == {get_ident(input[i].path) : i \in 1..Len(input)}
    IN  [k \in keys |-> [value |-> input[LastWithKey(input, k)].value,
                         span |-> LastWithKey(input, k)]]

parse_name_value_attrs(input) ==
    IF FirstJunk(input) # 0 THEN Err(ErrTokenize, FirstJunk(input))
    ELSE IF FirstNotIdent(input) # 0 THEN Err(ErrNotIdent, FirstNotIdent(input))
    ELSE Ok(CollectHashMap(input))

parse_str_lit(entry) ==
    IF entry.value.kind = "Str" THEN Ok(entry.value.v)
    ELSE Err(ErrNotStr, entry.span)

parse_bool_lit(entry) ==
    IF entry.value.kind = "Bool" THEN Ok(entry.value.v = "true")
    ELSE Err(ErrNotBool, entry.span)

----------------------------------------------------------------------------
(* RenameRule (mod case): the rules a rename_all string can name *)

RuleNames == {"camelCase", "PascalCase", "snake_case", "kebab-case"}

RenameRule_from_str(s) == IF s \in RuleNames THEN Ok(s) ELSE Err("unknown", 0)

----------------------------------------------------------------------------
(* <AggregateAttributes as Parse>::parse *)

AggregateAttributes_parse(input) ==
    LET vars_ == parse_name_value_attrs(input) IN
    IF ~vars_.ok THEN vars_
    ELSE IF "rename_all" \notin DOMAIN vars_.val
    THEN Ok([rename_all |-> None])
    ELSE LET expr == vars_.val["rename_all"]
             rename == parse_str_lit(expr)
         IN  IF ~rename.ok THEN rename
             ELSE IF ~RenameRule_from_str(rename.val).ok
             THEN Err(ErrRenameRule, expr.span)
             ELSE Ok([rename_all |-> RenameRule_from_str(rename.val).val])

\* The #[mapping(..)] options of a FromEvent variant (mod event): the
\* boolean option allow_unset, false when the block does not give it.
MappingAttributes_parse(input) ==
    LET vars_ == parse_name_value_attrs(input) IN
    IF ~vars_.ok THEN vars_
    ELSE IF "allow_unset" \notin DOMAIN vars_.val
    THEN Ok([allow_unset |-> FALSE])
    ELSE LET allow == parse_bool_lit(vars_.val["allow_unset"])
         IN  IF ~allow.ok THEN allow
             ELSE Ok([allow_unset |-> allow.val])

----------------------------------------------------------------------------
(* RenameRule::apply_to_field (mod case).  An identifier is a sequence of  *)
(* characters.  The name is split into words at every underscore and at    *)
(* every change from a lower-case to an upper-case letter, and the words   *)
(* are joined again in the convention of the rule.                         *)

LowerChars == <<"a", "b", "f", "o", "r", "v">>
UpperChars == <<"A", "B", "F", "O", "R", "V">>

IsUpper(c) == \E i \in 1..Len(UpperChars) : UpperChars[i] = c

ToUpper(c) ==
    IF \E i \in 1..Len(LowerChars) : LowerChars[i] = c
    THEN UpperChars[CHOOSE i \in 1..Len(LowerChars) : LowerChars[i] = c]
    ELSE c

ToLower(c) ==
    IF IsUpper(c)
    THEN LowerChars[CHOOSE i \in 1..Len(UpperChars) : UpperChars[i] = c]
    ELSE c

RECURSIVE SplitWords(_, _, _)
\* the words of name[i..], given the word `cur` being read
SplitWords(name, i, cur) ==
    LET flush == IF cur = <<>> THEN <<>> ELSE <<cur>> IN
    IF i > Len(name) THEN flush
    ELSE IF name[i] = "_" THEN flush \o SplitWords(name, i + 1, <<>>)
    ELSE IF IsUpper(name[i]) /\ cur # <<>> /\ ~IsUpper(Last(cur))
    THEN flush \o SplitWords(name, i + 1, <<name[i]>>)
    ELSE SplitWords(name, i + 1, Append(cur, name[i]))

LowerWord(w) == [i \in 1..Len(w) |-> ToLower(w[i])]

Capitalize(w) ==
    [i \in 1..Len(w) |-> IF i = 1 THEN ToUpper(w[i]) ELSE ToLower(w[i])]

RECURSIVE Join(_, _)
Join(words, sep) ==
    IF words = <<>> THEN <<>>
    ELSE IF Len(words) = 1 THEN words[1]
    ELSE words[1] \o sep \o Join(Tail(words), sep)

apply_to_field(rule, name) ==
    LET words == SplitWords(name, 1, <<>>) IN
    CASE rule = None -> name
      [] rule = "PascalCase" ->
            Join([i \in 1..Len(words) |-> Capitalize(words[i])], <<>>)
      [] rule = "camelCase" ->
            Join([i \in 1..Len(words) |->
                    IF i = 1 THEN LowerWord(words[i])
                    ELSE Capitalize(words[i])], <<>>)
      [] rule = "snake_case" ->
            Join([i \in 1..Len(words) |-> LowerWord(words[i])], <<"_">>)
      [] rule = "kebab-case" ->
            Join([i \in 1..Len(words) |-> LowerWord(words[i])], <<"-">>)

----------------------------------------------------------------------------
(* AggregateAttributes::merge *)

\* a variant in which the first block wins
merge_first_wins(self_, other) ==
    [rename_all |-> IF self_.rename_all # None THEN self_.rename_all
                    ELSE other.rename_all]

\* other.rename_all.or(self.rename_all)
merge(self_, other) ==
    [rename_all |-> IF other.rename_all # None THEN other.rename_all
                    ELSE self_.rename_all]

AggregateAttributes_default == [rename_all |-> None]

----------------------------------------------------------------------------
(* parse_attribute_list: the option it returns is [some |-> FALSE] or      *)
(* [some |-> TRUE, res |-> the result of parsing the list's tokens].       *)

NoAttr == [some |-> FALSE]
SomeAttr(r) == [some |-> TRUE, res |-> r]

\* syn::parse2::<T>: the Parse implementation of the type T
parse2(T, tokens_) ==
    CASE T = "AggregateAttributes" -> AggregateAttributes_parse(tokens_)
      [] T = "MappingAttributes" -> MappingAttributes_parse(tokens_)

\* a variant that lets #[name = ..] pass like the bare #[name]
parse_attribute_list_nv_skipped(T, attr, name) ==
    IF get_ident(attr.path) # name THEN NoAttr
    ELSE CASE attr.meta = "Path" -> NoAttr
           [] attr.meta = "NameValue" -> NoAttr
           [] attr.meta = "List" -> SomeAttr(parse2(T, attr.tokens))

parse_attribute_list(T, attr, name) ==
    IF get_ident(attr.path) # name THEN NoAttr
    ELSE CASE attr.meta = "Path" -> NoAttr
           [] attr.meta = "NameValue" -> SomeAttr(Err(ErrNamedValue, 0))
           [] attr.meta = "List" -> SomeAttr(parse2(T, attr.tokens))

----------------------------------------------------------------------------
(* parse_struct_fields.  ast.data is [kind, style, names]: kind is Struct, *)
(* Enum or Union; style (of a struct) is Named, Unnamed or Unit.  A named  *)
(* field always has an identifier, so the "field is not an ident" error of *)
(* the code has no input that raises it.                                   *)

DeclSpan == <<0, 0>>

\* a variant that takes the fields of any struct, named or not
parse_struct_fields_any_struct(ast_) ==
    IF ast_.data.kind # "Struct" THEN Err(ErrNotStruct, DeclSpan)
    ELSE Ok(ast_.data.names)

parse_struct_fields(ast_) ==
    IF ast_.data.kind # "Struct" THEN Err(ErrNotStruct, DeclSpan)
    ELSE IF ast_.data.style # "Named" THEN Err(ErrNotNamed, DeclSpan)
    ELSE Ok(ast_.data.names)

----------------------------------------------------------------------------
(* <AggregateDerive as Parse>::parse.  The name and the generics of the    *)
(* declaration are carried through unchanged and are left out.  A span of  *)
(* an error inside attribute i is <<i, position inside the attribute>>.    *)

AttrOptions(ast_) ==
    [i \in 1..Len(ast_.attrs) |->
        parse_attribute_list("AggregateAttributes", ast_.attrs[i],
                             "astarte_aggregate")]

\* collect::<Result<Vec<_>, _>>()?: the first error in iteration order
FirstFailing(opts) ==
    IF \E i \in 1..Len(opts) : opts[i].some /\ ~opts[i].res.ok
    THEN CHOOSE i \in 1..Len(opts) :
            /\ opts[i].some /\ ~opts[i].res.ok
            /\ \A j \in 1..(i - 1) : ~(opts[j].some /\ ~opts[j].res.ok)
    ELSE 0

RECURSIVE Reduce(_, _, _)
\* Iterator::reduce(|first, second| first.merge(second)) over opts[i..]
Reduce(opts, i, acc) ==
    IF i > Len(opts) THEN acc
    ELSE IF ~opts[i].some THEN Reduce(opts, i + 1, acc)
    ELSE IF ~acc.some THEN Reduce(opts, i + 1, SomeAttr(opts[i].res.val))
    ELSE Reduce(opts, i + 1, SomeAttr(merge(acc.res, opts[i].res.val)))

\* Option::unwrap_or_default
unwrap_or_default(opt) ==
    IF opt.some THEN opt.res ELSE AggregateAttributes_default

\* a variant that validates the shape before it parses the attributes
AggregateDerive_parse_shape_first(ast_) ==
    LET opts == AttrOptions(ast_)
        bad == FirstFailing(opts)
        fields == parse_struct_fields(ast_)
    IN  IF ~fields.ok THEN fields
        ELSE IF bad # 0 THEN Err(opts[bad].res.msg, <<bad, opts[bad].res.span>>)
        ELSE Ok([attrs |-> unwrap_or_default(Reduce(opts, 1, NoAttr)),
                 fields |-> fields.val])

AggregateDerive_parse(ast_) ==
    LET opts == AttrOptions(ast_)
        bad == FirstFailing(opts)
        fields == parse_struct_fields(ast_)
    IN  IF bad # 0 THEN Err(opts[bad].res.msg, <<bad, opts[bad].res.span>>)
        ELSE IF ~fields.ok THEN fields
        ELSE Ok([attrs |-> unwrap_or_default(Reduce(opts, 1, NoAttr)),
                 fields |-> fields.val])

\* AggregateDerive::quote: the statements of the generated function body,
\* one per field: convert self.<field>, insert under <name>
AggregateDerive_quote(derive) ==
    [i \in 1..Len(derive.fields) |->
        [field |-> derive.fields[i],
         name |-> apply_to_field(derive.attrs.rename_all, derive.fields[i])]]

\* astarte_aggregate_derive: the impl, or the compile error of the parse
astarte_aggregate_derive(input) ==
    LET aggregate == AggregateDerive_parse(input) IN
    IF ~aggregate.ok THEN aggregate
    ELSE Ok([derive |-> aggregate.val,
             body |-> AggregateDerive_quote(aggregate.val)])

----------------------------------------------------------------------------
(* Declarations the derive macro is applied to *)

Attr(path, meta, tokens_) == [path |-> path, meta |-> meta, tokens |-> tokens_]

RenameTo(rule) == NameValue(<<"rename_all">>, StrLit(rule))

DeriveBlocks ==
    { <<>>,
      <<RenameTo("camelCase")>>,
      <<RenameTo("snake_case")>>,
      <<RenameTo("bogus")>>,
      <<NameValue(<<"foo">>, StrLit("x"))>>,
      <<NameValue(<<"a", "b">>, StrLit("x")), RenameTo("camelCase")>> }

Attrs ==
    {Attr(<<"astarte_aggregate">>, "List", b) : b \in DeriveBlocks}
    \cup {Attr(<<"astarte_aggregate">>, m, <<>>) : m \in {"Path", "NameValue"}}
    \cup {Attr(<<"doc">>, m, <<RenameTo("bogus")>>) :
            m \in {"Path", "NameValue", "List"}}
    \cup {Attr(<<"a", "astarte_aggregate">>, "List", <<RenameTo("bogus")>>)}

FieldNames ==
    {<<"b", "a", "r", "_", "v">>, <<"b", "a", "r", "V">>, <<"f", "o", "o">>}

\* field lists: the field names of a struct are distinct
FieldLists ==
    {fs \in SeqsUpTo(FieldNames, MaxFields) :
        \A i, j \in 1..Len(fs) : fs[i] = fs[j] => i = j}

Data(kind, style, names) == [kind |-> kind, style |-> style, names |-> names]

Datas ==
    {Data("Struct", "Named", fs) : fs \in FieldLists}
    \cup {Data("Struct", st, <<>>) : st \in {"Unnamed", "Unit"}}
    \cup {Data(k, "Unit", <<>>) : k \in {"Enum", "Union"}}

Decls == [attrs : SeqsUpTo(Attrs, MaxAttrs), data : Datas]

----------------------------------------------------------------------------
(* FromEvent for an individual aggregation (mod event): an enum whose      *)
(* variants are bound to endpoints by #[mapping(endpoint = .., ..)].       *)

ErrUnknownEndpoint == "UnknownEndpointError"
ErrMissingValue == "MissingValueError"
ErrConversion == "ConversionError"

Empty == "empty"

Endpoints == {"/sensor/luminosity", "/sensor/temperature", "/sensor/humidity"}

EventPaths == Endpoints \cup {"/sensor/other", "/sensor"}

Absent == [present |-> FALSE, v |-> "-", converts |-> FALSE]

Payloads ==
    {Absent} \cup
    {[present |-> TRUE, v |-> x, converts |-> c] : x \in {"1", "2"}, c \in BOOLEAN}

Variant(endpoint, allow_unset) ==
    [endpoint |-> endpoint, allow_unset |-> allow_unset]

\* the variants of one enum are bound to different endpoints
VariantLists ==
    {vs \in SeqsUpTo({Variant(e, a) : e \in Endpoints, a \in BOOLEAN}, MaxVariants) :
        \A i, j \in 1..Len(vs) : vs[i].endpoint = vs[j].endpoint => i = j}

\* the variant whose endpoint is the path of the event, or 0
MatchVariant(vs, path) ==
    IF \E i \in 1..Len(vs) : vs[i].endpoint = path
    THEN CHOOSE i \in 1..Len(vs) : vs[i].endpoint = path
    ELSE 0

\* a variant of from_event that takes an absent payload for any variant
from_event_always_unset(vs, ev) ==
    LET i == MatchVariant(vs, ev.path) IN
    IF i = 0 THEN Err(ErrUnknownEndpoint, ev.path)
    ELSE IF ~ev.payload.present THEN Ok([variant |-> i, value |-> Empty])
    ELSE IF ~ev.payload.converts THEN Err(ErrConversion, ev.path)
    ELSE Ok([variant |-> i, value |-> ev.payload.v])

\* the generated from_event
from_event(vs, ev) ==
    LET i == MatchVariant(vs, ev.path) IN
    IF i = 0 THEN Err(ErrUnknownEndpoint, ev.path)
    ELSE IF ~ev.payload.present
    THEN IF vs[i].allow_unset THEN Ok([variant |-> i, value |-> Empty])
         ELSE Err(ErrMissingValue, ev.path)
    ELSE IF ~ev.payload.converts THEN Err(ErrConversion, ev.path)
    ELSE Ok([variant |-> i, value |-> ev.payload.v])

----------------------------------------------------------------------------
(* The state machines *)

ParseIdle ==
    /\ tokens = <<>>
    /\ nvOut = Pending
    /\ attrOut = Pending
    /\ mapOut = Pending

DeriveIdle ==
    /\ ast = [attrs |-> <<>>, data |-> Data("Struct", "Unit", <<>>)]
    /\ emitted = Pending
    /\ pc = "idle"
    /\ self = <<>>
    /\ idx = 1
    /\ result = <<>>
    /\ converted = <<>>
    /\ ret = Pending

DecodeIdle ==
    /\ variants = <<>>
    /\ event = [path |-> "/sensor", payload |-> Absent]
    /\ decoded = Pending

(* ---- SpecParse: the parsers applied to the tokens of one block ---- *)

InitParse ==
    /\ tokens \in Blocks
    /\ nvOut = Pending
    /\ attrOut = Pending
    /\ mapOut = Pending
    /\ DeriveIdle
    /\ DecodeIdle

ParseNameValue ==
    /\ IsPending(nvOut)
    /\ nvOut' = parse_name_value_attrs(tokens)
    /\ UNCHANGED <<tokens, attrOut, mapOut, deriveVars, decodeVars>>

ParseAggregate ==
    /\ IsPending(attrOut)
    /\ attrOut' = parse2("AggregateAttributes", tokens)
    /\ UNCHANGED <<tokens, nvOut, mapOut, deriveVars, decodeVars>>

ParseMapping ==
    /\ IsPending(mapOut)
    /\ mapOut' = parse2("MappingAttributes", tokens)
    /\ UNCHANGED <<tokens, nvOut, attrOut, deriveVars, decodeVars>>

NextParse == ParseNameValue \/ ParseAggregate \/ ParseMapping

SpecParse == InitParse /\ [][NextParse]_vars

(* ---- Spec: the derive macro at build time, then one call of the ---- *)
(* ---- generated astarte_aggregate at run time                    ---- *)

TryIntoErr(field) == [ok |-> FALSE, msg |-> ErrConversion, span |-> field]

\* the AstarteType made from the value of a field
V(field) == [from |-> field]

\* HashMap::insert
Insert(map, k, v) ==
    [x \in (DOMAIN map) \cup {k} |-> IF x = k THEN v ELSE map[x]]

Init ==
    /\ ast \in Decls
    /\ emitted = Pending
    /\ pc = "build"
    /\ self = <<>>
    /\ idx = 1
    /\ result = <<>>
    /\ converted = <<>>
    /\ ret = Pending
    /\ ParseIdle
    /\ DecodeIdle

\* the compiler expands #[derive(AstarteAggregate)]
Expand ==
    /\ pc = "build"
    /\ emitted' = astarte_aggregate_derive(ast)
    /\ pc' = IF emitted'.ok THEN "compiled" ELSE "compile_error"
    /\ UNCHANGED <<ast, self, idx, result, converted, ret, parseVars, decodeVars>>

\* a caller enters astarte_aggregate(self): let mut result = HashMap::new()
Call ==
    /\ pc = "compiled"
    /\ \E inst \in [1..Len(emitted.val.body) -> BOOLEAN] : self' = inst
    /\ pc' = "running"
    /\ idx' = 1
    /\ result' = <<>>
    /\ UNCHANGED <<ast, emitted, converted, ret, parseVars, decodeVars>>

\* a variant of EncodeField that skips a field whose conversion fails
EncodeField_skip_failed ==
    /\ pc = "running"
    /\ idx <= Len(emitted.val.body)
    /\ LET stmt == emitted.val.body[idx] IN
        /\ converted' = Append(converted, stmt.field)
        /\ result' = IF self[idx] THEN Insert(result, stmt.name, V(stmt.field))
                     ELSE result
        /\ idx' = idx + 1
        /\ UNCHANGED <<pc, ret>>
    /\ UNCHANGED <<ast, emitted, self, parseVars, decodeVars>>

\* one statement pair of the body:
\*   let value = TryInto::try_into(self.<field>)?; result.insert(<name>, value);
EncodeField ==
    /\ pc = "running"
    /\ idx <= Len(emitted.val.body)
    /\ LET stmt == emitted.val.body[idx] IN
        /\ converted' = Append(converted, stmt.field)
        /\ IF self[idx]
           THEN /\ result' = Insert(result, stmt.name, V(stmt.field))
                /\ idx' = idx + 1
                /\ UNCHANGED <<pc, ret>>
           ELSE /\ ret' = TryIntoErr(stmt.field)
                /\ pc' = "returned"
                /\ UNCHANGED <<idx, result>>
    /\ UNCHANGED <<ast, emitted, self, parseVars, decodeVars>>

\* the last expression of the body: Ok(result)
EncodeReturn ==
    /\ pc = "running"
    /\ idx > Len(emitted.val.body)
    /\ ret' = Ok(result)
    /\ pc' = "returned"
    /\ UNCHANGED <<ast, emitted, self, idx, result, converted, parseVars, decodeVars>>

Next == Expand \/ Call \/ EncodeField \/ EncodeReturn

Spec == Init /\ [][Next]_vars

(* ---- SpecDecode: one call of the generated from_event ---- *)

InitDecode ==
    /\ variants \in VariantLists
    /\ event \in [path : EventPaths, payload : Payloads]
    /\ decoded = Pending
    /\ ParseIdle
    /\ DeriveIdle

Decode ==
    /\ IsPending(decoded)
    /\ decoded' = from_event(variants, event)
    /\ UNCHANGED <<variants, event, parseVars, deriveVars>>

NextDecode == Decode

SpecDecode == InitDecode /\ [][NextDecode]_vars

----------------------------------------------------------------------------
(* Vocabulary of the properties *)

SyntaxErrors == {ErrTokenize, ErrNotIdent, ErrNotStr, ErrNotBool, ErrNamedValue}
ShapeErrors == {ErrNotStruct, ErrNotNamed}

Min(S) == CHOOSE x \in S : \A y \in S : x <= y
Max(S) == CHOOSE x \in S : \A y \in S : y <= x

\* positions of the pairs of a block whose key is the bare identifier k
PairsWithKey(block, k) ==
    {i \in 1..Len(block) : block[i].form = "nv" /\ block[i].path = <<k>>}

\* a block made of name-value pairs whose keys are all bare identifiers
WellFormed(block) ==
    \A i \in 1..Len(block) : block[i].form = "nv" /\ Len(block[i].path) = 1

NamedStruct(d) == d.kind = "Struct" /\ d.style = "Named"

\* attribute a is written #[astarte_aggregate ...]
IsAggregateAttr(a) == a.path = <<"astarte_aggregate">>

\* positions of the attributes of a declaration that are rejected
FailingAttrs(decl) ==
    {i \in 1..Len(decl.attrs) :
        /\ IsAggregateAttr(decl.attrs[i])
        /\ \/ decl.attrs[i].meta = "NameValue"
           \/ /\ decl.attrs[i].meta = "List"
              /\ ~AggregateAttributes_parse(decl.attrs[i].tokens).ok}

\* positions of the astarte_aggregate(..) blocks that set rename_all
SettingBlocks(decl) ==
    {i \in 1..Len(decl.attrs) :
        /\ IsAggregateAttr(decl.attrs[i])
        /\ decl.attrs[i].meta = "List"
        /\ PairsWithKey(decl.attrs[i].tokens, "rename_all") # {}}

\* the rule that block i of the declaration names for rename_all
RuleOfBlock(decl, i) ==
    LET b == decl.attrs[i].tokens
    IN  b[Max(PairsWithKey(b, "rename_all"))].value.v

----------------------------------------------------------------------------
(* C1 *)

\* C1: astarte_aggregate converts the fields in declaration order and is
\* fail-fast and all-or-nothing: while it runs nothing has been returned and
\* exactly the first idx-1 declared fields have been converted; when a field
\* fails to convert it returns the error of the first failing field in
\* declaration order, with no later field converted and no mapping returned;
\* it returns Ok(mapping) only when every field converted.
C1_FailFastAllOrNothing ==
    LET names == ast.data.names
        failing == {i \in 1..Len(names) : ~self[i]}
    IN  /\ pc = "running" =>
            /\ IsPending(ret)
            /\ converted = SubSeq(names, 1, idx - 1)
        /\ pc = "returned" =>
            IF failing = {}
            THEN /\ ret.ok
                 /\ converted = names
            ELSE /\ ~ret.ok
                 /\ "val" \notin DOMAIN ret
                 /\ ret = TryIntoErr(names[Min(failing)])
                 /\ converted = SubSeq(names, 1, Min(failing))

\* two fields, both unconvertible: the call has returned the first one's error
C1_Witness ==
    /\ pc = "returned"
    /\ Len(ast.data.names) = 2
    /\ ~self[1] /\ ~self[2]
    /\ ret = TryIntoErr(ast.data.names[1])

----------------------------------------------------------------------------
(* C2 *)

\* C2: when astarte_aggregate succeeds, every field has been visited exactly
\* once and the mapping holds, for every field f, an entry with key
\* apply(rule, f) and value the converted value of f, where rule is the
\* configured rename_all rule or the identity; it has exactly one entry per
\* field and no other entry.
C2_OneEntryPerField ==
    (pc = "returned" /\ ret.ok) =>
        LET names == ast.data.names
            rule == IF SettingBlocks(ast) = {} THEN None
                    ELSE RuleOfBlock(ast, Max(SettingBlocks(ast)))
            key(i) == apply_to_field(rule, names[i])
        IN  /\ converted = names
            /\ \A i \in 1..Len(names) :
                    /\ key(i) \in DOMAIN ret.val
                    /\ ret.val[key(i)] = V(names[i])
            /\ DOMAIN ret.val = {key(i) : i \in 1..Len(names)}
            /\ Cardinality(DOMAIN ret.val) = Len(names)

\* What does hold: the mapping's keys are the renamed field names, and each
\* key holds the value of the last declared field that is renamed to it.
C2_LastFieldOfEachKey ==
    (pc = "returned" /\ ret.ok) =>
        LET names == ast.data.names
            rule == IF SettingBlocks(ast) = {} THEN None
                    ELSE RuleOfBlock(ast, Max(SettingBlocks(ast)))
            key(i) == apply_to_field(rule, names[i])
        IN  /\ converted = names
            /\ DOMAIN ret.val = {key(i) : i \in 1..Len(names)}
            /\ \A i \in 1..Len(names) :
                    (\A j \in (i + 1)..Len(names) : key(j) # key(i))
                        => ret.val[key(i)] = V(names[i])

\* the example of the specification: bar_v under camelCase gives the key barV
C2_Example ==
    (/\ pc = "returned" /\ ret.ok
     /\ ast.data.names = << <<"b", "a", "r", "_", "v">> >>
     /\ emitted.val.derive.attrs.rename_all = "camelCase")
        => DOMAIN ret.val = { <<"b", "a", "r", "V">> }

----------------------------------------------------------------------------
(* C3 *)

\* C3: merging is later-wins per key, so the effective rename rule of a
\* declaration is the one named by the last astarte_aggregate(..) block that
\* sets rename_all, and the identity rule when no block sets it (or there is
\* no block at all).
C3_LastSettingWins ==
    (~IsPending(emitted) /\ emitted.ok) =>
        emitted.val.derive.attrs.rename_all =
            IF SettingBlocks(ast) = {} THEN None
            ELSE RuleOfBlock(ast, Max(SettingBlocks(ast)))

\* two blocks set different rules, and the derive has succeeded
C3_Witness ==
    /\ ~IsPending(emitted) /\ emitted.ok
    /\ \E i, j \in SettingBlocks(ast) :
            i < j /\ RuleOfBlock(ast, i) # RuleOfBlock(ast, j)

----------------------------------------------------------------------------
(* C4 *)

\* C4: a block with a key the aggregate resolver does not know (any key
\* other than rename_all) makes the resolution of the block fail; the key is
\* never silently ignored.
C4_UnknownKeyRejected ==
    ~IsPending(attrOut) =>
        ((\E i \in 1..Len(tokens) :
                tokens[i].form = "nv" /\ tokens[i].path # <<"rename_all">>)
            => ~attrOut.ok)

\* What the code does: a block of pairs with identifier keys is accepted
\* whatever its other keys are, as the same block without them is.
C4_UnknownKeysIgnored ==
    (~IsPending(attrOut) /\ WellFormed(tokens)) =>
        LET known == SelectSeq(tokens, LAMBDA e : e.path = <<"rename_all">>)
        IN  /\ attrOut.ok = AggregateAttributes_parse(known).ok
            /\ attrOut.ok => attrOut.val = AggregateAttributes_parse(known).val

----------------------------------------------------------------------------
(* C5 *)

\* C5 (as stated): applying the derive to a declaration that is not a struct
\* with named fields fails at build time with a shape error and emits no
\* encode function; a declaration is accepted only if it is a struct with
\* named fields, and then the resolved field list is the declared fields in
\* declaration order.
C5_AlwaysShapeError ==
    ~IsPending(emitted) =>
        /\ emitted.ok =>
            /\ NamedStruct(ast.data)
            /\ emitted.val.derive.fields = ast.data.names
        /\ ~NamedStruct(ast.data) =>
            /\ ~emitted.ok
            /\ emitted.msg \in ShapeErrors

\* C5 (amended): the derive accepts a declaration only if it is a struct
\* with named fields, and then the resolved field list is the declared
\* fields in declaration order; for a tuple struct, a unit struct, an enum or
\* a union the build fails and nothing is emitted, and the error is a shape
\* error unless one of the declaration's astarte_aggregate attributes is
\* rejected, whose error is reported first.
C5_NamedStructRequired ==
    ~IsPending(emitted) =>
        /\ emitted.ok =>
            /\ NamedStruct(ast.data)
            /\ emitted.val.derive.fields = ast.data.names
            /\ [i \in 1..Len(emitted.val.body) |-> emitted.val.body[i].field]
                    = ast.data.names
        /\ ~NamedStruct(ast.data) =>
            /\ ~emitted.ok
            /\ "val" \notin DOMAIN emitted
            /\ pc = "compile_error"
            /\ FailingAttrs(ast) = {} =>
                    /\ emitted.msg \in ShapeErrors
                    /\ emitted.span = DeclSpan

\* a tuple struct has been rejected with the shape error
C5_Witness ==
    /\ ~IsPending(emitted)
    /\ ast.data.kind = "Struct" /\ ast.data.style = "Unnamed"
    /\ ~emitted.ok /\ emitted.msg = ErrNotNamed

----------------------------------------------------------------------------
(* C6 *)

\* C6: parsing a block fails with a syntax error whenever a key of the block
\* is not a bare identifier, or the value given for a key is not a literal of
\* the kind the key expects (a string for rename_all, a boolean for
\* allow_unset); when parsing succeeds every key is a bare identifier and is
\* mapped to the value written for it.
C6_BadKeyOrLiteralRejected ==
    (~IsPending(nvOut) /\ ~IsPending(attrOut) /\ ~IsPending(mapOut)) =>
        /\ (\E i \in 1..Len(tokens) : Len(tokens[i].path) # 1) =>
                /\ ~nvOut.ok /\ nvOut.msg \in SyntaxErrors
                /\ ~attrOut.ok /\ attrOut.msg \in SyntaxErrors
                /\ ~mapOut.ok /\ mapOut.msg \in SyntaxErrors
        /\ (\E i \in PairsWithKey(tokens, "rename_all") :
                    tokens[i].value.kind # "Str") =>
                ~attrOut.ok /\ attrOut.msg \in SyntaxErrors
        /\ (\E i \in PairsWithKey(tokens, "allow_unset") :
                    tokens[i].value.kind # "Bool") =>
                ~mapOut.ok /\ mapOut.msg \in SyntaxErrors
        /\ nvOut.ok =>
                \A i \in 1..Len(tokens) :
                    /\ Len(tokens[i].path) = 1
                    /\ tokens[i].path[1] \in DOMAIN nvOut.val
                    /\ nvOut.val[tokens[i].path[1]].value = tokens[i].value

\* What does hold: the same, for the last pair of each key.
C6_LastPairOfEachKey ==
    (~IsPending(nvOut) /\ ~IsPending(attrOut) /\ ~IsPending(mapOut)) =>
        LET last(k) == Max(PairsWithKey(tokens, k)) IN
        /\ (\E i \in 1..Len(tokens) : Len(tokens[i].path) # 1) =>
                /\ ~nvOut.ok /\ nvOut.msg \in SyntaxErrors
                /\ ~attrOut.ok /\ attrOut.msg \in SyntaxErrors
                /\ ~mapOut.ok /\ mapOut.msg \in SyntaxErrors
        /\ (/\ PairsWithKey(tokens, "rename_all") # {}
            /\ tokens[last("rename_all")].value.kind # "Str") =>
                ~attrOut.ok /\ attrOut.msg \in SyntaxErrors
        /\ (/\ PairsWithKey(tokens, "allow_unset") # {}
            /\ tokens[last("allow_unset")].value.kind # "Bool") =>
                ~mapOut.ok /\ mapOut.msg \in SyntaxErrors
        /\ nvOut.ok =>
                \A i \in 1..Len(tokens) :
                    /\ Len(tokens[i].path) = 1
                    /\ tokens[i].path[1] \in DOMAIN nvOut.val
                    /\ nvOut.val[tokens[i].path[1]].value
                            = tokens[last(tokens[i].path[1])].value

----------------------------------------------------------------------------
(* C7 *)

\* C7: in a block of pairs with identifier keys, a rename_all value that is a
\* string literal but not the name of a supported rule makes the parsing of
\* the block fail with the invalid-rename-rule error; a block that gives
\* rename_all never parses to the default (unset) rule; a block that omits
\* rename_all parses successfully with rename_all unset.
C7_InvalidRuleRejected ==
    (~IsPending(attrOut) /\ WellFormed(tokens)) =>
        /\ (\E i \in PairsWithKey(tokens, "rename_all") :
                /\ tokens[i].value.kind = "Str"
                /\ tokens[i].value.v \notin RuleNames) =>
                ~attrOut.ok /\ attrOut.msg = ErrRenameRule
        /\ (attrOut.ok /\ attrOut.val.rename_all = None) =>
                PairsWithKey(tokens, "rename_all") = {}
        /\ PairsWithKey(tokens, "rename_all") = {} =>
                attrOut.ok /\ attrOut.val.rename_all = None

\* What does hold: the same, for the last rename_all pair of the block.
C7_LastInvalidRuleRejected ==
    (~IsPending(attrOut) /\ WellFormed(tokens)) =>
        LET pairs == PairsWithKey(tokens, "rename_all") IN
        /\ (/\ pairs # {}
            /\ tokens[Max(pairs)].value.kind = "Str"
            /\ tokens[Max(pairs)].value.v \notin RuleNames) =>
                ~attrOut.ok /\ attrOut.msg = ErrRenameRule
        /\ (attrOut.ok /\ attrOut.val.rename_all = None) => pairs = {}
        /\ pairs = {} => attrOut.ok /\ attrOut.val.rename_all = None

----------------------------------------------------------------------------
(* C8 *)

\* C8: from_event of an individual aggregation selects the variant whose
\* endpoint equals the path of the event: a path equal to no endpoint fails
\* with UnknownEndpointError; for the matched variant an absent payload gives
\* the variant holding an empty value when allow_unset is true and fails with
\* MissingValueError when it is false; a present payload is converted and
\* wrapped in the matched variant; no other variant is ever produced.
C8_DecodeIndividual ==
    ~IsPending(decoded) =>
        LET matches == {i \in 1..Len(variants) :
                            variants[i].endpoint = event.path}
        IN  /\ matches = {} =>
                ~decoded.ok /\ decoded.msg = ErrUnknownEndpoint
            /\ \A i \in matches :
                /\ (~event.payload.present /\ variants[i].allow_unset) =>
                        /\ decoded.ok
                        /\ decoded.val = [variant |-> i, value |-> Empty]
                /\ (~event.payload.present /\ ~variants[i].allow_unset) =>
                        ~decoded.ok /\ decoded.msg = ErrMissingValue
                /\ (event.payload.present /\ event.payload.converts) =>
                        /\ decoded.ok
                        /\ decoded.val = [variant |-> i, value |-> event.payload.v]
                /\ (event.payload.present /\ ~event.payload.converts) =>
                        ~decoded.ok /\ decoded.msg = ErrConversion
            /\ decoded.ok => decoded.val.variant \in matches

\* luminosity and temperature (allow_unset) are bound; an event on the
\* temperature path without payload has been decoded to the empty value
C8_Witness ==
    /\ ~IsPending(decoded)
    /\ variants = <<Variant("/sensor/luminosity", FALSE),
                    Variant("/sensor/temperature", TRUE)>>
    /\ event = [path |-> "/sensor/temperature", payload |-> Absent]
    /\ decoded.ok /\ decoded.val = [variant |-> 2, value |-> Empty]

----------------------------------------------------------------------------
(* C9 *)

\* C9: if an astarte_aggregate attribute of a declaration is rejected, the
\* derive fails and emits nothing, even when a later block is valid and sets
\* the same key; the error is the one of the first rejected attribute in
\* declaration order, also when the shape of the declaration is wrong.
C9_FirstBlockErrorReported ==
    (~IsPending(emitted) /\ FailingAttrs(ast) # {}) =>
        LET i == Min(FailingAttrs(ast))
            a == ast.attrs[i]
        IN  /\ ~emitted.ok
            /\ "val" \notin DOMAIN emitted
            /\ pc = "compile_error"
            /\ emitted.span[1] = i
            /\ emitted.msg =
                    IF a.meta = "NameValue" THEN ErrNamedValue
                    ELSE AggregateAttributes_parse(a.tokens).msg
            /\ emitted.msg \notin ShapeErrors

\* a rejected block, then a valid block that sets rename_all, on an enum
C9_Witness ==
    /\ ~IsPending(emitted)
    /\ ~NamedStruct(ast.data)
    /\ Len(ast.attrs) >= 2
    /\ 1 \in FailingAttrs(ast)
    /\ 2 \in SettingBlocks(ast) /\ 2 \notin FailingAttrs(ast)
    /\ ~emitted.ok /\ emitted.span[1] = 1

----------------------------------------------------------------------------
(* C10 *)

\* the attributes of a declaration that parse_attribute_list does not skip
Recognized(decl) ==
    [attrs |-> SelectSeq(decl.attrs,
                         LAMBDA a : IsAggregateAttr(a) /\ a.meta # "Path"),
     data |-> decl.data]

\* C10: parse_attribute_list(attr, name) skips an attribute whose path is not
\* the single identifier name, and the bare #[name]; it rejects the form
\* #[name = ..]; only #[name(..)] gives a configuration, the parse result of
\* its inner tokens.  So the derive of a declaration is the derive of the
\* declaration without the skipped attributes.
C10_AttributeRecognition ==
    /\ \A i \in 1..Len(ast.attrs) :
        LET a == ast.attrs[i]
            o == parse_attribute_list("AggregateAttributes", a,
                                      "astarte_aggregate")
        IN  /\ a.path # <<"astarte_aggregate">> => ~o.some
            /\ (IsAggregateAttr(a) /\ a.meta = "Path") => ~o.some
            /\ (IsAggregateAttr(a) /\ a.meta = "NameValue") =>
                    o.some /\ ~o.res.ok /\ o.res.msg = ErrNamedValue
            /\ (IsAggregateAttr(a) /\ a.meta = "List") =>
                    o.some /\ o.res = AggregateAttributes_parse(a.tokens)
    /\ ~IsPending(emitted) =>
        LET kept == astarte_aggregate_derive(Recognized(ast)) IN
        /\ emitted.ok = kept.ok
        /\ emitted.ok => emitted.val = kept.val
        /\ ~emitted.ok => emitted.msg = kept.msg
        /\ (\E i \in 1..Len(ast.attrs) :
                IsAggregateAttr(ast.attrs[i]) /\ ast.attrs[i].meta = "NameValue")
            => ~emitted.ok

\* a named struct with a foreign attribute and a bare #[astarte_aggregate],
\* both skipped: the derive has succeeded with the identity rule
C10_Witness ==
    /\ ~IsPending(emitted) /\ emitted.ok
    /\ Len(ast.attrs) = 2
    /\ ~IsAggregateAttr(ast.attrs[1]) /\ ast.attrs[1].meta = "List"
    /\ IsAggregateAttr(ast.attrs[2]) /\ ast.attrs[2].meta = "Path"
    /\ emitted.val.derive.attrs.rename_all = None

====
